---- MODULE Spec2Model ----
(***************************************************************************)
(* Model of the EPB integration: the API client (api.py) and the update    *)
(* coordinator (coordinator.py).                                           *)
(*                                                                         *)
(* Energy values are fixed-point integers in hundredths of a kWh (so the   *)
(* guard 0.1 kWh is 10 and 100 kWh is 10000); costs are in cents.  On this *)
(* grid the comparison 1.0 - current/prev > 0.5 is decided exactly by      *)
(* 2 * (prev - current) > prev.                                            *)
(***************************************************************************)
EXTENDS Integers, Sequences, FiniteSets, TLC

(* ----------------------------- bounds ---------------------------------- *)
\* number of poll cycles explored
MaxCycles == 3
\* depth of recursive self-calls after which the interpreter raises
\* RecursionError (the interpreter's limit is far larger)
MaxRecursion == 2
\* longest daily list of a usage body given to the parser on its own
MaxDaily == 2

\* the clock hours and days of the month the polls are drawn from: the code
\* only compares them for equality
Hours == {9, 10}
Days == {14, 15}
\* the tokens the login endpoint hands out
Tokens == {1, 2}

(* --------------------------- program constants ------------------------- *)
\* self._token = None
NoToken == 0
\* prev_kwh > 0.1, in hundredths of a kWh
NonZeroCheck == 10
\* HTTP status of a successful response
StatusOk == 200
\* HTTP status that, with TOKEN_EXPIRED in the body, means an expired token
StatusExpired == 400

(* ------------------------------ JSON values ---------------------------- *)
\* A field of a values object: a number, absent, or a value float() rejects
\* ("bad": a non-numeric string, ValueError; "null": None, TypeError).
Num(n) == [t |-> "num", v |-> n]
Missing == [t |-> "missing", v |-> 0]
Bad == [t |-> "bad", v |-> 0]
Null == [t |-> "null", v |-> 0]

Values(k, c) == [pos_kwh |-> k, pos_wh_est_cost |-> c]
EmptyValues == Values(Missing, Missing)

\* one entry of the daily list: has_values is '"a" in entry and "values" in entry["a"]'
Entry(vals) == [has_values |-> TRUE, values |-> vals]
NoValuesEntry == [has_values |-> FALSE, values |-> EmptyValues]

UsagePayload(hasTotals, totals, daily) ==
    [has_totals |-> hasTotals, totals |-> totals, data |-> daily]

\* float(d.get(key, 0)): a missing key reads the default 0
FloatOf(f) ==
    IF f.t = "num" THEN [ok |-> TRUE, v |-> f.v]
    ELSE IF f.t = "missing" THEN [ok |-> TRUE, v |-> 0]
    ELSE [ok |-> FALSE, v |-> 0]

ZeroSample == [kwh |-> 0, cost |-> 0, daily_kwh |-> 0, daily_cost |-> 0]

\* index of the last entry of the daily list that has a values object, 0 if none
RECURSIVE LastWithValues(_, _)
LastWithValues(daily, i) ==
    IF i = 0 THEN 0
    ELSE IF daily[i].has_values THEN i
    ELSE LastWithValues(daily, i - 1)

\* the fallback and the return at the end of the try block
ApplyFallback(result) ==
    IF result.kwh = 0 /\ result.daily_kwh > 0
    THEN [result EXCEPT !.kwh = result.daily_kwh, !.cost = result.daily_cost]
    ELSE result

\* the daily part of _extract_usage_data, entered with the result so far
ExtractDaily(payload, result) ==
    LET i == LastWithValues(payload.data, Len(payload.data)) IN
    IF i = 0 THEN ApplyFallback(result)
    ELSE LET dk == FloatOf(payload.data[i].values.pos_kwh)
             dc == FloatOf(payload.data[i].values.pos_wh_est_cost)
         IN IF ~dk.ok THEN result
            ELSE IF ~dc.ok THEN [result EXCEPT !.daily_kwh = dk.v]
            ELSE ApplyFallback([result EXCEPT !.daily_kwh = dk.v,
                                              !.daily_cost = dc.v])

\* EPBApiClient._extract_usage_data: one try block; the first conversion that
\* raises ends the extraction and returns the result as assigned so far
ExtractUsageData(payload) ==
    IF payload.has_totals
    THEN LET k == FloatOf(payload.totals.pos_kwh)
             c == FloatOf(payload.totals.pos_wh_est_cost)
         IN IF ~k.ok THEN ZeroSample
            ELSE IF ~c.ok THEN [ZeroSample EXCEPT !.kwh = k.v]
            ELSE ExtractDaily(payload, [ZeroSample EXCEPT !.kwh = k.v, !.cost = c.v])
    ELSE ExtractDaily(payload, ZeroSample)

(* ------------------------- inputs of a poll cycle ---------------------- *)
AccountIds == {"a1", "a2"}

\* the account_id of each link of the lists the account-links endpoint may
\* return; "" is a link whose account_id is empty
AccountLinkLists == { <<>>, <<"a1", "", "a2">> }

\* month-to-date kWh (hundredths) and cost (cents) the usage endpoint reports:
\* 0.05, 40, 50, 95 and 100 kWh
TotalsReported == { <<0, 0>>, <<5, 1>>, <<4000, 480>>, <<5000, 600>>,
                    <<9500, 1140>>, <<10000, 1234>> }

\* the second account reports 100 kWh
TotalsOfSecond == { <<10000, 1234>> }

\* the JSON bodies the usage endpoint may answer for an account
UsagePayloads(a) ==
    { UsagePayload(TRUE, Values(Num(r[1]), Num(r[2])), <<>>) :
        r \in IF a = "a1" THEN TotalsReported ELSE TotalsOfSecond }

\* A reply to the login request.  err: the request raised ClientError.
AuthResponses ==
    { [err |-> FALSE, status |-> StatusOk, token |-> t] : t \in Tokens \cup {NoToken} }
    \cup { [err |-> FALSE, status |-> 401, token |-> NoToken],
           [err |-> FALSE, status |-> 500, token |-> NoToken],
           [err |-> TRUE, status |-> 0, token |-> NoToken] }

\* A reply to an authenticated request.  err: the request raised ClientError;
\* expired_text: the body contains TOKEN_EXPIRED; json_ok: response.json() parses.
Response(err, status, expired, jsonOk) ==
    [err |-> err, status |-> status, expired_text |-> expired, json_ok |-> jsonOk]

ErrorResponses ==
    { Response(TRUE, 0, FALSE, FALSE),
      Response(FALSE, StatusExpired, FALSE, TRUE),
      Response(FALSE, 401, TRUE, TRUE),
      Response(FALSE, StatusOk, FALSE, FALSE) }

ExpiredResponse == Response(FALSE, StatusExpired, TRUE, TRUE)
OkResponse == Response(FALSE, StatusOk, FALSE, TRUE)

\* the replies an authenticated request may get
Responses == ErrorResponses \cup {ExpiredResponse, OkResponse}

(* ------------------------------- state --------------------------------- *)
VARIABLES
    _token,             \* EPBApiClient._token
    account_links,      \* EPBUpdateCoordinator.account_links (account ids)
    _prev_kwh_values,   \* account id -> previous raw kWh
    _accumulated_kwh,   \* account id -> folded kWh
    _last_hour,         \* account id -> hour of the last hour-change check
    _current_day,       \* the day marker
    published,          \* DataUpdateCoordinator.data, the map observers read
    pc,                 \* position of the poll cycle
    current_hour,       \* locals of _async_update_data
    current_day,
    data,
    idx,                \* position of the for loop in account_links
    raw_usage_data,     \* what get_usage_data returned for account_links[idx]
    depth,              \* recursive self-calls of the client call in progress,
                        \* each made after one re-authentication
    sent_token,         \* X-User-Token of the last request of the client call
    response,           \* the reply it got (both cleared once the result is used)
    result,             \* how the last poll cycle ended
    cycles,             \* poll cycles started
    day_changed,        \* this cycle took the new-day branch
    auth_failed,        \* authenticate() raised in this cycle
    failed_fetch,       \* accounts whose fetch failure was swallowed this cycle
    steady,             \* account id -> all its samples so far came within one
                        \* day and never went down
    login,              \* the authenticate() call of the last step: the reply
                        \* it read and the exception it raised
    raised,             \* the exception the last poll cycle ended with
    discovered,         \* a call of get_account_links has returned
    usage_json,         \* the body handed to _extract_usage_data
    state_written       \* this cycle has changed the day marker or one of
                        \* the three per-account maps

vars == << _token, account_links, _prev_kwh_values, _accumulated_kwh, _last_hour,
           _current_day, published, pc, current_hour, current_day, data, idx,
           raw_usage_data, depth, sent_token, response, result, cycles,
           day_changed, auth_failed, failed_fetch, steady, login, raised,
           discovered, usage_json, state_written >>

requestVars == << sent_token, response >>
stateVars == << _prev_kwh_values, _accumulated_kwh, _last_hour >>
localVars == << current_hour, current_day, data, idx, raw_usage_data >>

EmptyMap == [a \in {} |-> 0]
\* the clock has not been read in this cycle
NoClock == 0
NoResponse == Response(FALSE, 0, FALSE, FALSE)
\* the step made no authenticate() call
NoLogin == [called |-> FALSE, reply |-> [err |-> FALSE, status |-> 0, token |-> NoToken],
            exc |-> "none"]
\* authenticate() read the reply ar and ended with exc
Login(ar, exc) == [called |-> TRUE, reply |-> ar, exc |-> exc]
\* no body is being parsed
NoJson == UsagePayload(FALSE, EmptyValues, <<>>)

\* the state after EPBApiClient.__init__ and EPBUpdateCoordinator.__init__
Init ==
    /\ _token = NoToken
    /\ account_links = <<>>
    /\ _prev_kwh_values = EmptyMap
    /\ _accumulated_kwh = EmptyMap
    /\ _last_hour = EmptyMap
    /\ _current_day = 14
    /\ published = EmptyMap
    /\ pc = "idle"
    /\ current_hour = NoClock
    /\ current_day = NoClock
    /\ data = EmptyMap
    /\ idx = 1
    /\ raw_usage_data = ZeroSample
    /\ depth = 0
    /\ sent_token = NoToken
    /\ response = NoResponse
    /\ result = "none"
    /\ cycles = 0
    /\ day_changed = FALSE
    /\ auth_failed = FALSE
    /\ failed_fetch = {}
    /\ steady = [a \in AccountIds |-> TRUE]
    /\ login = NoLogin
    /\ raised = "none"
    /\ discovered = FALSE
    /\ usage_json = NoJson
    /\ state_written = FALSE

(* ------------------------------ the client ----------------------------- *)
\* authenticate without 'if not self._token: raise EPBAuthError'
Authenticate_NoTokenTest(tok, r) ==
    IF r.err THEN [token |-> tok, exc |-> "EPBApiError"]
    ELSE IF r.status # StatusOk THEN [token |-> tok, exc |-> "EPBAuthError"]
    ELSE [token |-> r.token, exc |-> "none"]

\* EPBApiClient.authenticate: the token it leaves and the exception it raises
Authenticate(tok, r) ==
    IF r.err THEN [token |-> tok, exc |-> "EPBApiError"]
    ELSE IF r.status # StatusOk THEN [token |-> tok, exc |-> "EPBAuthError"]
    ELSE IF r.token = NoToken THEN [token |-> NoToken, exc |-> "EPBAuthError"]
    ELSE [token |-> r.token, exc |-> "none"]

\* EPBApiClient._ensure_token: authenticates only when no token is held
EnsureToken(tok, r) ==
    IF tok = NoToken THEN Authenticate(tok, r) ELSE [token |-> tok, exc |-> "none"]

\* the login replies _ensure_token can meet: none is read when a token is held
LoginReplies(tok) ==
    IF tok = NoToken THEN AuthResponses ELSE { [err |-> FALSE, status |-> 0, token |-> tok] }

\* the headers without X-User-Token
GetAuthHeaders_NoHeader(tok) == NoToken

\* EPBApiClient._get_auth_headers: the X-User-Token header, absent without a token
GetAuthHeaders(tok) == tok

\* the expired-token test looking at the body alone
IsTokenExpired_TextOnly(r) == r.expired_text

\* response.status == 400 and "TOKEN_EXPIRED" in text
IsTokenExpired(r) == r.status = StatusExpired /\ r.expired_text

\* the branch of get_account_links / get_usage_data a reply takes, in the
\* order the code tests it
ResponseClass(r) ==
    IF r.err THEN "client_error"
    ELSE IF IsTokenExpired(r) THEN "expired"
    ELSE IF r.status # StatusOk THEN "api_error"
    ELSE IF ~r.json_ok THEN "bad_json"
    ELSE "ok"

\* get_usage_data with the 'except Exception' clause left out: every failure
\* leaves the call as EPBApiError
UsageFailureOutcome_Raises(r, d) == "raise"

\* How get_usage_data ends on a reply that is neither a 200 with a body nor an
\* expired token.  A ClientError is re-raised as EPBApiError; inside a
\* recursive self-call that EPBApiError reaches the calling frame's
\* 'except Exception' and becomes the zero sample.  Everything else raised in
\* the try block (the EPBApiError of a non-200 status, a JSON decoding error)
\* is caught by 'except Exception'.
UsageFailureOutcome(r, d) ==
    IF r.err /\ d = 0 THEN "raise" ELSE "zero"

\* except EPBAuthError / except EPBApiError in _async_update_data: both become
\* UpdateFailed; any other exception leaves _async_update_data as it is
CycleResult(exc) ==
    IF exc \in {"EPBAuthError", "EPBApiError"} THEN "UpdateFailed" ELSE exc

\* _async_update_data returning the map built so far instead of raising
DataAfterFailure_Partial(old, partial) == partial

\* the map observers read after a cycle that raised: nothing is returned, so
\* the coordinator's data stays what it was
DataAfterFailure(old, partial) == old

\* the locals of _async_update_data and of the client call go out of scope
LocalsDropped ==
    /\ current_hour' = NoClock
    /\ current_day' = NoClock
    /\ data' = EmptyMap
    /\ idx' = 1
    /\ raw_usage_data' = ZeroSample
    /\ depth' = 0
    /\ day_changed' = FALSE
    /\ failed_fetch' = {}
    /\ usage_json' = NoJson
    /\ state_written' = FALSE

\* a poll cycle ends by raising exc
Raise(exc) ==
    /\ pc' = "idle"
    /\ result' = CycleResult(exc)
    /\ raised' = exc
    /\ published' = DataAfterFailure(published, data)
    /\ LocalsDropped

\* a step inside a cycle that neither ends it nor touches these
CycleGoesOn ==
    UNCHANGED << result, raised, published, current_hour, current_day, data, idx,
                 day_changed, state_written >>

(* --------------------------- the poll cycle ---------------------------- *)
\* The scheduler calls _async_update_data; cycles never overlap.
StartCycle ==
    /\ pc = "idle"
    /\ cycles < MaxCycles
    /\ cycles' = cycles + 1
    /\ pc' = IF account_links = <<>> THEN "links" ELSE "clock"
    /\ result' = "running"
    /\ auth_failed' = FALSE
    /\ sent_token' = NoToken
    /\ response' = NoResponse
    /\ login' = NoLogin
    /\ raised' = "none"
    /\ UNCHANGED << _token, depth, account_links, stateVars, _current_day,
                    published, localVars, day_changed, failed_fetch, steady,
                    discovered, usage_json, state_written >>

\* get_account_links, up to its request: _ensure_token runs outside the try
\* block, so what authenticate raises reaches _async_update_data unchanged
GetAccountLinksCall ==
    /\ pc = "links"
    /\ \E ar \in LoginReplies(_token) :
         LET a == EnsureToken(_token, ar) IN
         /\ _token' = a.token
         /\ auth_failed' = (a.exc # "none")
         /\ login' = IF _token = NoToken THEN Login(ar, a.exc) ELSE NoLogin
         /\ IF a.exc = "none"
            THEN /\ pc' = "links_req"
                 /\ CycleGoesOn
                 /\ UNCHANGED << depth, raw_usage_data, failed_fetch, usage_json >>
            ELSE Raise(a.exc)
    /\ UNCHANGED << requestVars, account_links, stateVars, _current_day, cycles,
                    steady, discovered >>

\* the account-links request answers 200 with a list
AccountLinksOk ==
    /\ pc = "links_req"
    /\ \E links \in AccountLinkLists :
         account_links' = links
    /\ sent_token' = GetAuthHeaders(_token)
    /\ \E r \in Responses :
         /\ ResponseClass(r) = "ok"
         /\ response' = r
    /\ pc' = "clock"
    /\ depth' = 0
    /\ discovered' = TRUE
    /\ login' = NoLogin
    /\ CycleGoesOn
    /\ UNCHANGED << _token, stateVars, _current_day, raw_usage_data, cycles,
                    auth_failed, failed_fetch, steady, usage_json >>

\* the account-links request answers 400 TOKEN_EXPIRED: the token is dropped,
\* _ensure_token authenticates and get_account_links calls itself.  The
\* recursive call finds a token, so it goes straight to its request.  What
\* is raised here (by authenticate, or RecursionError) is inside the try
\* block: 'except Exception' re-raises it as EPBApiError.
AccountLinksExpired ==
    /\ pc = "links_req"
    /\ sent_token' = GetAuthHeaders(_token)
    /\ \E r \in Responses :
         /\ ResponseClass(r) = "expired"
         /\ response' = r
    /\ \E ar \in AuthResponses :
         LET a == Authenticate(NoToken, ar) IN
         /\ _token' = a.token
         /\ auth_failed' = (auth_failed \/ a.exc # "none")
         /\ login' = Login(ar, a.exc)
         /\ IF a.exc = "none" /\ depth < MaxRecursion
            THEN /\ depth' = depth + 1
                 /\ pc' = "links_req"
                 /\ CycleGoesOn
                 /\ UNCHANGED << raw_usage_data, failed_fetch, usage_json >>
            ELSE Raise("EPBApiError")
    /\ UNCHANGED << account_links, stateVars, _current_day, cycles, steady,
                    discovered >>

\* any other reply to the account-links request: ClientError, a non-200
\* status, a body that is not JSON; all leave as EPBApiError
AccountLinksError ==
    /\ pc = "links_req"
    /\ \E r \in Responses :
         /\ ResponseClass(r) \in {"client_error", "api_error", "bad_json"}
         /\ response' = r
    /\ sent_token' = GetAuthHeaders(_token)
    /\ Raise("EPBApiError")
    /\ login' = NoLogin
    /\ UNCHANGED << _token, account_links, stateVars, _current_day, cycles,
                    auth_failed, steady, discovered >>

\* self._accumulated_kwh after the new-day check
AccumulatedAfterDayCheck(acc, day, marker) ==
    IF day # marker THEN EmptyMap ELSE acc

\* the day marker left as it was
MarkerAfterDayCheck_Kept(day, marker) == marker

\* self._current_day after the new-day check: the branch assigns current_day,
\* and without the branch the two are equal
MarkerAfterDayCheck(day, marker) == day

\* data = {}, the clock is read once, and the day is compared with the marker
DayCheck ==
    /\ pc = "clock"
    /\ \E h \in Hours, d \in Days :
         /\ current_hour' = h
         /\ current_day' = d
         /\ _accumulated_kwh' = AccumulatedAfterDayCheck(_accumulated_kwh, d, _current_day)
         /\ _current_day' = MarkerAfterDayCheck(d, _current_day)
         /\ day_changed' = (d # _current_day)
         /\ steady' = [a \in AccountIds |->
                         steady[a] /\ (d = _current_day \/ a \notin DOMAIN _prev_kwh_values)]
    /\ data' = EmptyMap
    /\ idx' = 1
    /\ pc' = "loop"
    /\ login' = NoLogin
    /\ state_written' = (<< _current_day, _accumulated_kwh >>' #
                           << _current_day, _accumulated_kwh >>)
    /\ UNCHANGED << _token, requestVars, depth, account_links, _prev_kwh_values,
                    _last_hour, published, raw_usage_data, result, cycles,
                    auth_failed, failed_fetch, raised, discovered, usage_json >>

\* the for loop is exhausted: return data, which the coordinator publishes
ReturnData ==
    /\ pc = "loop"
    /\ idx > Len(account_links)
    /\ published' = data
    /\ result' = "success"
    /\ pc' = "idle"
    /\ LocalsDropped
    /\ login' = NoLogin
    /\ UNCHANGED << _token, requestVars, account_links, stateVars, _current_day,
                    cycles, auth_failed, steady, raised, discovered >>

\* 'if account_id:' is false for a link with an empty account id
SkipAccount ==
    /\ pc = "loop"
    /\ idx <= Len(account_links)
    /\ account_links[idx] = ""
    /\ idx' = idx + 1
    /\ UNCHANGED << _token, requestVars, depth, account_links, stateVars,
                    _current_day, published, pc, current_hour, current_day, data,
                    raw_usage_data, result, cycles, day_changed, auth_failed,
                    failed_fetch, steady, raised, discovered, usage_json,
                    state_written >>
    /\ login' = NoLogin

\* get_usage_data, up to its request: _ensure_token runs outside the try block
GetUsageDataCall ==
    /\ pc = "loop"
    /\ idx <= Len(account_links)
    /\ account_links[idx] # ""
    /\ \E ar \in LoginReplies(_token) :
         LET a == EnsureToken(_token, ar) IN
         /\ _token' = a.token
         /\ auth_failed' = (auth_failed \/ a.exc # "none")
         /\ login' = IF _token = NoToken THEN Login(ar, a.exc) ELSE NoLogin
         /\ IF a.exc = "none"
            THEN /\ pc' = "usage_req"
                 /\ CycleGoesOn
                 /\ UNCHANGED << depth, raw_usage_data, failed_fetch, usage_json >>
            ELSE Raise(a.exc)
    /\ UNCHANGED << requestVars, account_links, stateVars, _current_day, cycles,
                    steady, discovered >>

\* get_usage_data returns the zero sample for account_links[idx]
ReturnZeroSample ==
    /\ raw_usage_data' = ZeroSample
    /\ failed_fetch' = failed_fetch \cup {account_links[idx]}
    /\ pc' = "ingest"
    /\ depth' = 0
    /\ usage_json' = NoJson
    /\ CycleGoesOn

\* the usage request answers 200 with a JSON body, which is parsed
UsageOk ==
    /\ pc = "usage_req"
    /\ \E payload \in UsagePayloads(account_links[idx]) :
         /\ usage_json' = payload
         /\ raw_usage_data' = ExtractUsageData(payload)
    /\ sent_token' = GetAuthHeaders(_token)
    /\ \E r \in Responses :
         /\ ResponseClass(r) = "ok"
         /\ response' = r
    /\ pc' = "ingest"
    /\ depth' = 0
    /\ login' = NoLogin
    /\ CycleGoesOn
    /\ UNCHANGED << _token, account_links, stateVars, _current_day, cycles,
                    auth_failed, failed_fetch, steady, discovered >>

\* the usage request answers 400 TOKEN_EXPIRED: the token is dropped,
\* _ensure_token authenticates and get_usage_data calls itself.  The
\* recursive call finds a token, so it goes straight to its request.  What
\* is raised here (by authenticate, or RecursionError) is inside the try
\* block and is not ClientError: 'except Exception' returns the zero sample.
UsageExpired ==
    /\ pc = "usage_req"
    /\ sent_token' = GetAuthHeaders(_token)
    /\ \E r \in Responses :
         /\ ResponseClass(r) = "expired"
         /\ response' = r
    /\ \E ar \in AuthResponses :
         LET a == Authenticate(NoToken, ar) IN
         /\ _token' = a.token
         /\ auth_failed' = (auth_failed \/ a.exc # "none")
         /\ login' = Login(ar, a.exc)
         /\ IF a.exc = "none" /\ depth < MaxRecursion
            THEN /\ depth' = depth + 1
                 /\ pc' = "usage_req"
                 /\ CycleGoesOn
                 /\ UNCHANGED << raw_usage_data, failed_fetch, usage_json >>
            ELSE ReturnZeroSample
    /\ UNCHANGED << account_links, stateVars, _current_day, cycles, steady,
                    discovered >>

\* any other reply to the usage request: ClientError, a non-200 status, a
\* body that is not JSON
UsageError ==
    /\ pc = "usage_req"
    /\ \E r \in Responses :
         /\ ResponseClass(r) \in {"client_error", "api_error", "bad_json"}
         /\ response' = r
         /\ IF UsageFailureOutcome(r, depth) = "raise"
            THEN Raise("EPBApiError")
            ELSE ReturnZeroSample
    /\ sent_token' = GetAuthHeaders(_token)
    /\ login' = NoLogin
    /\ UNCHANGED << _token, account_links, stateVars, _current_day, cycles,
                    auth_failed, steady, discovered >>

(* ------------------------- the accumulation engine --------------------- *)
\* account_id in self._prev_kwh_values
Tracked(a) == a \in DOMAIN _prev_kwh_values

\* the first sample counted into the accumulator as well
NewAccountState_Counted(current_kwh, hour) ==
    [prev |-> current_kwh, acc |-> current_kwh, hour |-> hour]

\* what the three maps get for an account seen for the first time
NewAccountState(current_kwh, hour) ==
    [prev |-> current_kwh, acc |-> 0, hour |-> hour]

\* the three maps after 'if account_id not in self._prev_kwh_values:'
PrevAfterInit(a, current_kwh) ==
    IF Tracked(a) THEN _prev_kwh_values
    ELSE (a :> NewAccountState(current_kwh, current_hour).prev) @@ _prev_kwh_values
AccAfterInit(a, current_kwh) ==
    IF Tracked(a) THEN _accumulated_kwh
    ELSE (a :> NewAccountState(current_kwh, current_hour).acc) @@ _accumulated_kwh
HourAfterInit(a, current_kwh) ==
    IF Tracked(a) THEN _last_hour
    ELSE (a :> NewAccountState(current_kwh, current_hour).hour) @@ _last_hour

\* the reset test without the comparison of the sample with the previous value
ResetDetected_NoDropTest(current_kwh, prev_kwh) == prev_kwh > NonZeroCheck

\* current_kwh < prev_kwh and prev_kwh > 0.1, then
\* percentage_drop = 1.0 - current_kwh / prev_kwh > 0.5
ResetDetected(current_kwh, prev_kwh) ==
    /\ current_kwh < prev_kwh
    /\ prev_kwh > NonZeroCheck
    /\ 2 * (prev_kwh - current_kwh) > prev_kwh

\* the reading with the raw sample in the place of the total
Reading_RawAsTotal(total_kwh, current_kwh, cost) ==
    [kwh |-> current_kwh, raw_kwh |-> current_kwh, cost |-> cost]

\* the entry of data for one account
Reading(total_kwh, current_kwh, cost) ==
    [kwh |-> total_kwh, raw_kwh |-> current_kwh, cost |-> cost]

\* the fold taking the previous value off the accumulator
FoldedAccumulator_Subtracts(acc, prev_kwh) == acc - prev_kwh

\* self._accumulated_kwh[account_id] += prev_kwh
FoldedAccumulator(acc, prev_kwh) == acc + prev_kwh

\* the sample stored as the previous value of every tracked account
PrevAfterIngest_Shared(prev, a, current_kwh) ==
    [b \in DOMAIN prev |-> current_kwh]

\* self._prev_kwh_values[account_id] = current_kwh
PrevAfterIngest(prev, a, current_kwh) ==
    [prev EXCEPT ![a] = current_kwh]

\* the hour differs from the account's last hour and the reset test passes
FoldsReset(a, current_kwh) ==
    /\ current_hour # HourAfterInit(a, current_kwh)[a]
    /\ ResetDetected(current_kwh, PrevAfterInit(a, current_kwh)[a])

\* the body of the for loop after get_usage_data returned, when every lookup
\* of self._accumulated_kwh[account_id] finds its key
IngestSample ==
    /\ pc = "ingest"
    /\ LET a == account_links[idx]
           current_kwh == raw_usage_data.kwh
           prev1 == PrevAfterInit(a, current_kwh)
           acc1 == AccAfterInit(a, current_kwh)
           acc2 == IF FoldsReset(a, current_kwh)
                   THEN [acc1 EXCEPT ![a] = FoldedAccumulator(@, prev1[a])]
                   ELSE acc1
       IN /\ a \in DOMAIN acc1
          /\ _accumulated_kwh' = acc2
          /\ _last_hour' = [HourAfterInit(a, current_kwh) EXCEPT ![a] = current_hour]
          /\ _prev_kwh_values' = PrevAfterIngest(prev1, a, current_kwh)
          /\ data' = (a :> Reading(acc2[a] + current_kwh, current_kwh,
                                   raw_usage_data.cost)) @@ data
          /\ steady' = [steady EXCEPT ![a] =
                          IF Tracked(a)
                          THEN @ /\ current_kwh >= _prev_kwh_values[a]
                          ELSE TRUE]
    /\ idx' = idx + 1
    /\ pc' = "loop"
    /\ sent_token' = NoToken
    /\ response' = NoResponse
    /\ login' = NoLogin
    /\ usage_json' = NoJson
    /\ state_written' = (state_written \/ stateVars' # stateVars)
    /\ UNCHANGED << _token, depth, account_links, _current_day,
                    published, current_hour, current_day, raw_usage_data, result,
                    cycles, day_changed, auth_failed, failed_fetch, raised,
                    discovered >>

\* the same body for a tracked account whose key is missing from
\* self._accumulated_kwh: the '+=' of the fold raises KeyError before
\* _last_hour is written; without a fold _last_hour is written and the
\* lookup for total_kwh raises.  KeyError is not an EPBApiError.
IngestKeyError ==
    /\ pc = "ingest"
    /\ LET a == account_links[idx]
           current_kwh == raw_usage_data.kwh
       IN /\ a \notin DOMAIN AccAfterInit(a, current_kwh)
          /\ _last_hour' = IF FoldsReset(a, current_kwh)
                           THEN _last_hour
                           ELSE [_last_hour EXCEPT ![a] = current_hour]
    /\ Raise("KeyError")
    /\ login' = NoLogin
    /\ UNCHANGED << _token, requestVars, account_links, _prev_kwh_values,
                    _accumulated_kwh, _current_day, cycles, auth_failed,
                    steady, discovered >>

Next ==
    \/ StartCycle
    \/ GetAccountLinksCall
    \/ AccountLinksOk
    \/ AccountLinksExpired
    \/ AccountLinksError
    \/ DayCheck
    \/ ReturnData
    \/ SkipAccount
    \/ GetUsageDataCall
    \/ UsageOk
    \/ UsageExpired
    \/ UsageError
    \/ IngestSample
    \/ IngestKeyError

Spec == Init /\ [][Next]_vars

(* ------------------------- the parser on its own ----------------------- *)
\* what the two fields of interval_a_totals may hold: 0, a positive number,
\* nothing, a string float() rejects, null
TotalsKwhFields == {Num(0), Num(4000), Missing, Bad, Null}
TotalsCostFields == {Num(0), Num(480), Missing, Bad}

\* the entries of the daily list: without a values object, with an empty one,
\* with numbers, with a field float() rejects, with a field left out
DailyEntries ==
    { NoValuesEntry,
      Entry(EmptyValues),
      Entry(Values(Num(0), Num(0))),
      Entry(Values(Num(1250), Num(150))),
      Entry(Values(Num(700), Num(90))),
      Entry(Values(Bad, Num(150))),
      Entry(Values(Num(1250), Bad)),
      Entry(Values(Num(700), Missing)) }

\* the daily lists of up to MaxDaily entries, oldest first
DailyLists == UNION { [1..n -> DailyEntries] : n \in 0..MaxDaily }

\* the bodies _extract_usage_data is applied to
ParsePayloads ==
    { UsagePayload(TRUE, Values(k, c), d) :
        k \in TotalsKwhFields, c \in TotalsCostFields, d \in DailyLists }
    \cup { UsagePayload(FALSE, EmptyValues, d) : d \in DailyLists }

\* a fresh client about to parse one body
ParseInit ==
    /\ _token = NoToken
    /\ account_links = <<>>
    /\ _prev_kwh_values = EmptyMap
    /\ _accumulated_kwh = EmptyMap
    /\ _last_hour = EmptyMap
    /\ _current_day = 14
    /\ published = EmptyMap
    /\ pc = "parse"
    /\ current_hour = NoClock
    /\ current_day = NoClock
    /\ data = EmptyMap
    /\ idx = 1
    /\ raw_usage_data = ZeroSample
    /\ depth = 0
    /\ sent_token = NoToken
    /\ response = NoResponse
    /\ result = "none"
    /\ cycles = 0
    /\ day_changed = FALSE
    /\ auth_failed = FALSE
    /\ failed_fetch = {}
    /\ steady = [a \in AccountIds |-> TRUE]
    /\ login = NoLogin
    /\ raised = "none"
    /\ discovered = FALSE
    /\ usage_json \in ParsePayloads
    /\ state_written = FALSE

\* return self._extract_usage_data(data)
ExtractStep ==
    /\ pc = "parse"
    /\ raw_usage_data' = ExtractUsageData(usage_json)
    /\ pc' = "parsed"
    /\ UNCHANGED << _token, account_links, stateVars, _current_day, published,
                    current_hour, current_day, data, idx, depth, requestVars,
                    result, cycles, day_changed, auth_failed, failed_fetch,
                    steady, login, raised, discovered, usage_json,
                    state_written >>

ParseNext == ExtractStep

ParseSpec == ParseInit /\ [][ParseNext]_vars

(* ------------------------------- claims -------------------------------- *)
\* the account whose sample is being ingested
Current == account_links[idx]

\* a step that ingests the sample returned for Current
Ingesting == pc = "ingest"

\* a step in which _async_update_data returns its map
Returning == pc = "loop" /\ pc' = "idle" /\ result' = "success"

\* C1: between two successful poll cycles the published kwh of an account
\* never goes down.
C1_PublishedNeverDecreases ==
    [][Returning =>
         \A a \in DOMAIN published \cap DOMAIN published' :
             published'[a].kwh >= published[a].kwh]_vars

\* C2: in a cycle whose day differs from the marker, the marker is updated and
\* every tracked account's accumulated_kwh is 0 before the samples are
\* processed; each tracked account's sample is then processed against the
\* zeroed accumulator and its reading is put in the map.
C2_DayRolloverZeroes ==
    [][/\ (pc = "clock" /\ pc' = "loop" /\ current_day' # _current_day) =>
            /\ _current_day' = current_day'
            /\ \A a \in DOMAIN _prev_kwh_values :
                   /\ a \in DOMAIN _accumulated_kwh'
                   /\ _accumulated_kwh'[a] = 0
       /\ (Ingesting /\ day_changed /\ Tracked(Current)) =>
            /\ pc' = "loop"
            /\ Current \in DOMAIN data'
            /\ data'[Current].kwh =
                 (IF FoldsReset(Current, raw_usage_data.kwh)
                  THEN _prev_kwh_values[Current] ELSE 0) + raw_usage_data.kwh
      ]_vars

C4_AtMostOneRetry == depth <= 1

\* C5: an authentication failure at any point of a poll cycle ends the cycle
\* as UpdateFailed, with nothing published.
C5_AuthFailureEndsCycle ==
    [][(auth_failed' /\ ~auth_failed) =>
         (pc' = "idle" /\ result' = "UpdateFailed" /\ published' = published)]_vars

C7_ResetFolds ==
    [][(/\ Ingesting
        /\ Tracked(Current)
        /\ current_hour # _last_hour[Current]
        /\ _prev_kwh_values[Current] > NonZeroCheck
        /\ raw_usage_data.kwh < _prev_kwh_values[Current]
        /\ 2 * (_prev_kwh_values[Current] - raw_usage_data.kwh)
             > _prev_kwh_values[Current])
       =>
       (/\ Current \in DOMAIN _accumulated_kwh
        /\ Current \in DOMAIN _accumulated_kwh'
        /\ _accumulated_kwh'[Current] =
             _accumulated_kwh[Current] + _prev_kwh_values[Current]
        /\ Current \in DOMAIN data'
        /\ data'[Current].kwh = _accumulated_kwh'[Current] + raw_usage_data.kwh)
      ]_vars

\* C8: for a tracked account, a sample in a new hour whose previous value is
\* at most 0.1, or that is not below the previous value, or that is below it
\* by at most half, leaves accumulated_kwh as it is, and the reading's kwh is
\* accumulated_kwh plus the sample.
C8_NoResetKeepsAccumulated ==
    [][(/\ Ingesting
        /\ Tracked(Current)
        /\ current_hour # _last_hour[Current]
        /\ \/ _prev_kwh_values[Current] <= NonZeroCheck
           \/ raw_usage_data.kwh >= _prev_kwh_values[Current]
           \/ 2 * (_prev_kwh_values[Current] - raw_usage_data.kwh)
                <= _prev_kwh_values[Current])
       =>
       (/\ Current \in DOMAIN _accumulated_kwh
        /\ Current \in DOMAIN _accumulated_kwh'
        /\ _accumulated_kwh'[Current] = _accumulated_kwh[Current]
        /\ Current \in DOMAIN data'
        /\ data'[Current].kwh = _accumulated_kwh[Current] + raw_usage_data.kwh)
      ]_vars

\* C9: while all the samples of an account came within one day and never went
\* down, its accumulated_kwh is 0 and the kwh of its readings, in the map
\* being built and in the published map, is the raw sample.
C9_NonDecreasingStaysZero ==
    \A a \in AccountIds :
        (Tracked(a) /\ steady[a]) =>
            /\ a \in DOMAIN _accumulated_kwh
            /\ _accumulated_kwh[a] = 0
            /\ a \in DOMAIN data =>
                 /\ data[a].kwh = data[a].raw_kwh
                 /\ data[a].raw_kwh = _prev_kwh_values[a]
            /\ a \in DOMAIN published => published[a].kwh = published[a].raw_kwh

\* an account has reported 40 kWh, then 100 kWh in a later hour of the same day
C9_Witness ==
    /\ pc = "loop"
    /\ steady["a1"]
    /\ "a1" \in DOMAIN published
    /\ published["a1"].raw_kwh = 4000
    /\ "a1" \in DOMAIN data
    /\ data["a1"].raw_kwh = 10000
    /\ _last_hour["a1"] = 9
    /\ cycles = 2

\* C10: the first sample of an account sets previous_kwh to the sample,
\* accumulated_kwh to 0 and last_seen_hour to the current hour, and its
\* reading's kwh is the raw sample, whatever the sample, hour and day.
C10_FirstSample ==
    [][(Ingesting /\ ~Tracked(Current)) =>
         /\ pc' = "loop"
         /\ _prev_kwh_values'[Current] = raw_usage_data.kwh
         /\ _accumulated_kwh'[Current] = 0
         /\ _last_hour'[Current] = current_hour
         /\ data'[Current] = Reading(raw_usage_data.kwh, raw_usage_data.kwh,
                                     raw_usage_data.cost)
      ]_vars

\* the first sample of an account, 100 kWh, was ingested in a cycle of a new day
C10_Witness ==
    /\ pc = "loop"
    /\ cycles = 1
    /\ day_changed
    /\ "a1" \in DOMAIN data
    /\ data["a1"].kwh = 10000
    /\ _accumulated_kwh["a1"] = 0

\* C11: every reading of a successful poll cycle has kwh equal to the
\* account's accumulated_kwh at the end of its ingestion plus raw_kwh, raw_kwh
\* and cost being those of the sample; the published map is the map built in
\* that cycle, with one reading for each account of the list and no other.
C11_ReadingIsAccumulatedPlusRaw ==
    [][/\ (Ingesting /\ pc' = "loop") =>
            data'[Current] =
                [kwh |-> _accumulated_kwh'[Current] + raw_usage_data.kwh,
                 raw_kwh |-> raw_usage_data.kwh,
                 cost |-> raw_usage_data.cost]
       /\ Returning =>
            /\ published' = data
            /\ DOMAIN published' =
                 {account_links[i] : i \in 1..Len(account_links)} \ {""}
            /\ \A a \in DOMAIN published' :
                   /\ a \in DOMAIN _accumulated_kwh
                   /\ published'[a].kwh = _accumulated_kwh[a] + published'[a].raw_kwh
      ]_vars

\* a cycle has published 40 kWh raw on top of 100 kWh folded
C11_Witness ==
    /\ pc = "idle"
    /\ result = "success"
    /\ "a1" \in DOMAIN published
    /\ published["a1"] = [kwh |-> 14000, raw_kwh |-> 4000, cost |-> 480]
    /\ published["a2"].kwh = 10000

\* C12: no step other than the new-day step of a cycle removes or lowers an
\* account's accumulated_kwh, and accumulated_kwh is never negative.
C12_AccumulatedNonDecreasing ==
    [][/\ \A a \in DOMAIN _accumulated_kwh' : _accumulated_kwh'[a] >= 0
       /\ ~(pc = "clock" /\ current_day' # _current_day) =>
             \A a \in DOMAIN _accumulated_kwh :
                 /\ a \in DOMAIN _accumulated_kwh'
                 /\ _accumulated_kwh'[a] >= _accumulated_kwh[a]
      ]_vars

\* 100 kWh were folded in the second cycle and the third cycle has ingested a
\* sample on top of them
C12_Witness ==
    /\ pc = "loop"
    /\ cycles = 3
    /\ "a1" \in DOMAIN data
    /\ "a1" \in DOMAIN published
    /\ published["a1"].kwh = 14000
    /\ data["a1"].kwh = 15000
    /\ _accumulated_kwh["a1"] = 10000

FieldOrZero(f) == IF f.t = "num" THEN f.v ELSE 0

\* float() accepts the field
Parsable(f) == f.t \in {"num", "missing"}

\* the body has no totals, or totals whose kwh is 0, missing or unparsable
TotalsAbsentOrZero(p) ==
    ~p.has_totals \/ FieldOrZero(p.totals.pos_kwh) = 0

\* index of the last entry of the daily list with a non-empty values object,
\* 0 if there is none
RECURSIVE LastNonEmpty(_, _)
LastNonEmpty(daily, i) ==
    IF i = 0 THEN 0
    ELSE IF daily[i].has_values /\ daily[i].values # EmptyValues THEN i
    ELSE LastNonEmpty(daily, i - 1)

\* the body just parsed
Parsed == pc = "parsed"

\* C14: when the totals are absent or their kwh is 0, missing or unparsable,
\* and the most recent daily entry with a values object has a positive kwh
\* (all other fields being well-formed), the sample's kwh and cost are the
\* daily kwh and daily cost.
C14_FallbackToDaily ==
    Parsed =>
        LET p == usage_json
            i == LastWithValues(p.data, Len(p.data))
        IN (/\ TotalsAbsentOrZero(p)
            /\ Parsable(p.totals.pos_wh_est_cost)
            /\ i > 0
            /\ Parsable(p.data[i].values.pos_wh_est_cost)
            /\ FieldOrZero(p.data[i].values.pos_kwh) > 0)
           => /\ raw_usage_data.kwh = FieldOrZero(p.data[i].values.pos_kwh)
              /\ raw_usage_data.cost = FieldOrZero(p.data[i].values.pos_wh_est_cost)

\* C15: each of daily_kwh and daily_cost is the value of its field in the
\* most recent daily entry with a values object, and 0 when that field is
\* missing or unparsable or there is no such entry; unless the fallback to
\* the daily values applies, the same holds of kwh and cost and the fields of
\* the totals.
C15_FieldsParsedIndependently ==
    Parsed =>
        LET p == usage_json
            i == LastWithValues(p.data, Len(p.data))
            dk == IF i > 0 THEN FieldOrZero(p.data[i].values.pos_kwh) ELSE 0
            dc == IF i > 0 THEN FieldOrZero(p.data[i].values.pos_wh_est_cost) ELSE 0
        IN /\ raw_usage_data.daily_kwh = dk
           /\ raw_usage_data.daily_cost = dc
           /\ ~(TotalsAbsentOrZero(p) /\ dk > 0) =>
                /\ raw_usage_data.kwh = FieldOrZero(p.totals.pos_kwh)
                /\ raw_usage_data.cost = FieldOrZero(p.totals.pos_wh_est_cost)

\* every numeric field of the body is a number or left out
WellFormed(p) ==
    /\ Parsable(p.totals.pos_kwh)
    /\ Parsable(p.totals.pos_wh_est_cost)
    /\ \A j \in 1..Len(p.data) :
          /\ Parsable(p.data[j].values.pos_kwh)
          /\ Parsable(p.data[j].values.pos_wh_est_cost)

\* C17: for a body whose numeric fields are all well-formed, daily_kwh and
\* daily_cost are those of the last daily entry whose values object is
\* non-empty, entries after it with an empty or no values object being
\* skipped.
C17_DailyFromLastNonEmpty ==
    (Parsed /\ WellFormed(usage_json)) =>
        LET p == usage_json
            i == LastNonEmpty(p.data, Len(p.data))
        IN i > 0 =>
             /\ raw_usage_data.daily_kwh = FieldOrZero(p.data[i].values.pos_kwh)
             /\ raw_usage_data.daily_cost = FieldOrZero(p.data[i].values.pos_wh_est_cost)

\* C16: for a tracked account, a sample ingested in the hour of the account's
\* last_seen_hour leaves every accumulated_kwh as it is, whatever the drop,
\* and previous_kwh becomes the sample.
C16_SameHourNeverFolds ==
    [][(Ingesting /\ Tracked(Current) /\ current_hour = _last_hour[Current]) =>
         /\ _accumulated_kwh' = _accumulated_kwh
         /\ _prev_kwh_values'[Current] = raw_usage_data.kwh
      ]_vars

\* C18: a reply to the account-links request makes get_account_links
\* re-authenticate exactly when it is a 400 whose body contains
\* TOKEN_EXPIRED; every other reply with a status outside 200..299 ends the
\* call with EPBApiError, the token being kept and authenticate() not called.
C18_ExpiredOnlyFor400WithText ==
    [][pc = "links_req" =>
         /\ login'.called <=>
               (~response'.err /\ response'.status = 400 /\ response'.expired_text)
         /\ (/\ ~response'.err
             /\ response'.status \notin 200..299
             /\ ~(response'.status = 400 /\ response'.expired_text)) =>
               /\ _token' = _token
               /\ pc' = "idle"
               /\ raised' = "EPBApiError"
               /\ result' = "UpdateFailed"
      ]_vars

\* a 401 whose body contains TOKEN_EXPIRED has ended get_account_links with
\* EPBApiError, the token still held
C18_Witness ==
    /\ pc = "idle"
    /\ ~discovered
    /\ raised = "EPBApiError"
    /\ response.status = 401
    /\ response.expired_text
    /\ ~login.called
    /\ _token # NoToken

\* C19: once a call of get_account_links has returned, no poll cycle calls it
\* again and the list it returned is kept.
C19_DiscoveryCalledOnce ==
    [][discovered =>
         /\ pc' \notin {"links", "links_req"}
         /\ account_links' = account_links
      ]_vars

\* C20: the day is compared with the marker in one step of the cycle, made
\* when the clock has not yet been read in this cycle, after discovery and
\* before any usage fetch or state update; it leaves the marker equal to the
\* current day, and no other step reads the clock or writes the marker.
C20_DayCheckOncePerCycle ==
    [][/\ pc = "clock" =>
            /\ current_day = NoClock
            /\ pc' = "loop"
            /\ idx' = 1
            /\ data' = EmptyMap
            /\ current_day' # NoClock
            /\ day_changed' = (current_day' # _current_day)
            /\ _current_day' = current_day'
       /\ pc # "clock" =>
            /\ _current_day' = _current_day
            /\ current_day' = current_day \/ pc' = "idle"
       /\ pc \in {"idle", "links", "links_req"} =>
            /\ current_day = NoClock
            /\ UNCHANGED stateVars
       /\ pc' \in {"usage_req", "ingest"} =>
            /\ current_day' # NoClock
            /\ _current_day' = current_day'
      ]_vars

\* both accounts were processed in a cycle that found a new day
C20_Witness ==
    /\ pc = "loop"
    /\ idx > Len(account_links)
    /\ DOMAIN data = {"a1", "a2"}
    /\ day_changed
    /\ current_day = 15
    /\ _current_day = 15

\* C21: a poll cycle that a failing client call ends as UpdateFailed has
\* changed neither the day marker nor any account's previous_kwh,
\* accumulated_kwh or last_seen_hour.
C21_AbortLeavesStateUntouched ==
    [][(/\ pc \in {"links", "links_req", "loop", "usage_req"}
        /\ pc' = "idle"
        /\ result' = "UpdateFailed")
       => (/\ ~state_written
           /\ UNCHANGED << _current_day, stateVars >>)
      ]_vars

\* the entry of account b is the same in the two maps, or absent from both
SameEntry(before, after, b) ==
    /\ (b \in DOMAIN before) <=> (b \in DOMAIN after)
    /\ b \in DOMAIN before => after[b] = before[b]

\* C22: the ingestion of a sample for an account leaves the previous_kwh,
\* accumulated_kwh and last_seen_hour of every other account as they are;
\* outside ingestions the three maps change only in the new-day step, which
\* changes accumulated_kwh alone.
C22_AccountsNotShared ==
    [][/\ Ingesting =>
            \A b \in AccountIds \ {Current} :
                /\ SameEntry(_prev_kwh_values, _prev_kwh_values', b)
                /\ SameEntry(_accumulated_kwh, _accumulated_kwh', b)
                /\ SameEntry(_last_hour, _last_hour', b)
       /\ (~Ingesting /\ pc # "clock") => UNCHANGED stateVars
       /\ pc = "clock" =>
            /\ UNCHANGED << _prev_kwh_values, _last_hour >>
            /\ _accumulated_kwh' = _accumulated_kwh \/ current_day' # _current_day
      ]_vars

\* the second account was ingested after the first, whose reset was folded
\* in this cycle: each keeps its own three values
C22_Witness ==
    /\ pc = "loop"
    /\ idx > Len(account_links)
    /\ DOMAIN data = {"a1", "a2"}
    /\ _prev_kwh_values = [a \in AccountIds |-> IF a = "a1" THEN 4000 ELSE 10000]
    /\ _accumulated_kwh = [a \in AccountIds |-> IF a = "a1" THEN 10000 ELSE 0]
    /\ _last_hour = [a \in AccountIds |-> 10]

\* C23: in every state the three per-account maps have the same key set.
C23_SameKeySets ==
    /\ DOMAIN _prev_kwh_values = DOMAIN _accumulated_kwh
    /\ DOMAIN _accumulated_kwh = DOMAIN _last_hour

\* C24: in a cycle whose discovery and usage fetches have all succeeded, the
\* ingestion of a sample goes on to the next account with a reading for the
\* account in the map, and such a cycle ends by publishing a reading for
\* every account of the list with a non-empty id.
C24_HealthyCycleCompletes ==
    [][/\ (Ingesting /\ failed_fetch = {} /\ ~auth_failed) =>
            /\ pc' = "loop"
            /\ Current \in DOMAIN data'
       /\ (pc = "loop" /\ idx > Len(account_links) /\ failed_fetch = {}) =>
            /\ result' = "success"
            /\ DOMAIN published' =
                 {account_links[i] : i \in 1..Len(account_links)} \ {""}
      ]_vars

\* C25: the zero sample returned for a failed fetch of a tracked account
\* leaves the account's accumulated_kwh as it is.
C25_FailedFetchIsNoReset ==
    [][(/\ Ingesting
        /\ Current \in failed_fetch
        /\ Current \in DOMAIN _accumulated_kwh)
       => (/\ Current \in DOMAIN _accumulated_kwh'
           /\ _accumulated_kwh'[Current] = _accumulated_kwh[Current])
      ]_vars

\* C26: every account-links or usage request carries the token the client
\* holds, which is never unset then; the request retried after an
\* expired-token reply follows a re-authentication that succeeded and carries
\* the token of its login reply.
C26_RequestsCarryToken ==
    [][(pc = "links_req" \/ pc = "usage_req") =>
         /\ sent_token' # NoToken
         /\ sent_token' = _token
         /\ depth > 0 =>
              (/\ login.called
               /\ login.exc = "none"
               /\ login.reply.token = sent_token')
      ]_vars

\* a usage request retried after a re-authentication carried that login's
\* token 2, was itself answered 400 TOKEN_EXPIRED, and the next
\* re-authentication has obtained token 1 for the second retry
C26_Witness ==
    /\ pc = "usage_req"
    /\ depth = 2
    /\ sent_token = 2
    /\ response = ExpiredResponse
    /\ login.called
    /\ login.reply.token = 1
    /\ _token = 1

====
